---- MODULE Spec2Model ----
(***************************************************************************)
(* Credit ledger backend (FastAPI + SQLAlchemy): the plan upload           *)
(* (plans_insert), the yearly report (year_performance), the per-user      *)
(* credit report (get_user_credits) and the request-scoped session         *)
(* (get_db).                                                               *)
(*                                                                         *)
(* Conventions                                                             *)
(*  - a date is a record [year, month, day]; NULL is the SQL NULL / None   *)
(*  - a spreadsheet cell holding a number is [kind |-> "num", tenths |-> n]*)
(*    (n tenths, so 45 is 4.5), an empty cell is NaN, a non-numeric string *)
(*    is "text", an infinite float is "inf"                                *)
(*  - a period cell is the text "a.b.c" (three numbers), junk text, or NaN *)
(*  - money kept by Payments (DECIMAL(7,2)) is counted in hundredths,      *)
(*    Credits.body and Plans.sum (Integer) in units                        *)
(*  - a percentage is [ratio, h]: ratio = FALSE is the literal 0 of the    *)
(*    "else 0" branch (rendered "0%"), ratio = TRUE is a computed quotient *)
(*    rounded to 2 places, h its value in hundredths of a percent          *)
(*  - core/database.py:11 spells the sessionmaker keyword "sautocommit";   *)
(*    the model takes the session factory as configured with               *)
(*    autoflush=False and no autocommit, which is what the handlers rely   *)
(*    on, and lets SessionLocal() return a session                         *)
(***************************************************************************)
EXTENDS Integers, Sequences, FiniteSets, TLC

VARIABLES
    plans,        \* table plans: committed rows, in insertion (id) order
    credits,      \* table credits
    payments,     \* table payments
    dictionary,   \* table dictionary
    users,        \* table users
    pc,           \* per request: "idle", "rows", "exit", "done"
    op,           \* per request: the endpoint being served
    arg,          \* per request: the request's input
    idx,          \* per request: 0-based index of the next row of df.iterrows()
    session,      \* per request: the SQLAlchemy session get_db yielded
    status,       \* per request: HTTP status of the response (0: none yet)
    detail,       \* per request: the HTTPException detail / exception raised
    result,       \* per request: the JSON body of a 200 response
    acquired,     \* per request: number of sessions SessionLocal() created
    before,       \* per request: table plans when the request started
    known,        \* per request: the value of uploaded when it started
    uploaded      \* the (period, category_id) pairs of the rows of every
                  \* upload that has been answered 200

vars == <<plans, credits, payments, dictionary, users, pc, op, arg, idx, session,
          status, detail, result, acquired, before, known, uploaded>>

store == <<credits, payments, dictionary, users>>

-----------------------------------------------------------------------------
(* Bounds *)

MaxRows == 2      \* rows of an uploaded table
MaxPlans == 3     \* rows of table plans

-----------------------------------------------------------------------------
(* Values *)

NULL == [null |-> TRUE]

Date(y, m, d) == [year |-> y, month |-> m, day |-> d]

Num(t) == [kind |-> "num", tenths |-> t]
NaN == [kind |-> "nan"]
Text == [kind |-> "text"]
Inf == [kind |-> "inf"]

PeriodText(a, b, c) == [kind |-> "text", a |-> a, b |-> b, c |-> c]

Row(p, s, c) == [period |-> p, sum |-> s, category_id |-> c]

Abs(n) == IF n < 0 THEN -n ELSE n

Min(S) == CHOOSE x \in S : \A y \in S : x <= y

-----------------------------------------------------------------------------
(* plans_insert: the cell conversions of one row *)

IsLeap(y) == (y % 4 = 0 /\ y % 100 # 0) \/ y % 400 = 0

DaysInMonth(y, m) ==
    IF m = 2 THEN (IF IsLeap(y) THEN 29 ELSE 28)
    ELSE IF m \in {4, 6, 9, 11} THEN 30 ELSE 31

Raise(e) == [ok |-> FALSE, exc |-> e]

\* pd.to_datetime(cell, dayfirst=True).date(): the text "a.b.c" is read
\* day first (day a, month b, year c); junk text raises in to_datetime, an
\* empty cell becomes NaT and NaT.date() raises ValueError.
to_datetime(cell) ==
    IF cell.kind = "text" /\ cell.b \in 1..12
       /\ cell.a \in 1..DaysInMonth(cell.c, cell.b)
    THEN [ok |-> TRUE, date |-> Date(cell.c, cell.b, cell.a)]
    ELSE Raise("ValueError")

\* pd.isnull(cell)
isnull(cell) == cell.kind = "nan"

\* int(cell): truncates a float toward zero; ValueError for NaN and for a
\* non-numeric string, OverflowError for an infinite float.
int(cell) ==
    CASE cell.kind = "num" ->
            [ok |-> TRUE,
             v |-> IF cell.tenths >= 0 THEN cell.tenths \div 10
                   ELSE -((-cell.tenths) \div 10)]
      [] cell.kind = "inf" -> Raise("OverflowError")
      [] OTHER -> Raise("ValueError")

-----------------------------------------------------------------------------
(* The session: sessionmaker(autoflush=False), get_db *)

\* SessionLocal(): a fresh session with nothing pending.
SessionLocal == [state |-> "open", new |-> <<>>]

NoSession == [state |-> "none", new |-> <<>>]

\* db.close() in get_db's finally: the transaction is rolled back, so rows
\* added but never committed are dropped from the session and never reach
\* the table.
db_close(db) == [state |-> "closed", new |-> <<>>]

\* Variant: closing the session writes what is still pending.
plans_after_close_flushing(table, db) == table \o db.new

\* What db.close() leaves in table plans.
plans_after_close(table, db) == table

\* Variant: close() follows the yield without try/finally, so it runs only
\* when the handler returned normally.
get_db_close_on_return(db, code) == IF code = 200 THEN db_close(db) ELSE db

\* get_db: the generator's finally clause runs whatever way the handler left
\* (return or exception), so the session is closed on every outcome.
get_db_finally(db, code) == db_close(db)

\* Session.query(Plans).filter_by(period=..., category_id=...).first():
\* autoflush is off, so the SELECT sees table plans only, never db.new.
Matching(table, period, category_id) ==
    {i \in 1..Len(table) :
        table[i].period = period /\ table[i].category_id = category_id}

\* Variant: the lookup compares the category only with the plan's sum column.
get_existing_plan_wrong_column(db, period, category_id) ==
    LET m == {i \in 1..Len(plans) :
                plans[i].period = period /\ plans[i].sum = category_id}
    IN  IF m = {} THEN NULL ELSE plans[Min(m)]

\* Variant: the query autoflushes, so it also sees the session's staged rows.
get_existing_plan_autoflush(db, period, category_id) ==
    LET seen == plans \o db.new
        m == Matching(seen, period, category_id)
    IN  IF m = {} THEN NULL ELSE seen[Min(m)]

get_existing_plan(db, period, category_id) ==
    LET m == Matching(plans, period, category_id)
    IN  IF m = {} THEN NULL ELSE plans[Min(m)]

\* Variant: the new row replaces a staged row of the same period and category.
create_plan_merge(db, period, sum_, category_id) ==
    LET Other(p) == ~(p.period = period /\ p.category_id = category_id)
    IN  [db EXCEPT !.new =
            Append(SelectSeq(@, Other),
                   [period |-> period, sum |-> sum_,
                    category_id |-> category_id])]

\* create_plan: Plans(...) then db.add(new_plan); nothing is written yet.
create_plan(db, period, sum_, category_id) ==
    [db EXCEPT !.new =
        Append(@, [period |-> period, sum |-> sum_,
                   category_id |-> category_id])]

\* db.commit(): flushes db.new as INSERTs, in order.  plans.category_id is a
\* FOREIGN KEY to dictionary.id: a row whose category is not in dictionary
\* makes the flush raise IntegrityError and nothing is written.
ForeignKeyOk(db) ==
    \A i \in 1..Len(db.new) :
        \E d \in dictionary : d.id = db.new[i].category_id

\* Variant: table plans carries UNIQUE (period, category_id).
db_commit_unique(table, db) ==
    LET seen == table \o db.new
        unique == \A i, j \in 1..Len(seen) :
                     (seen[i].period = seen[j].period
                      /\ seen[i].category_id = seen[j].category_id) => i = j
    IN  IF ForeignKeyOk(db) /\ unique
        THEN [ok |-> TRUE, table |-> seen, db |-> [db EXCEPT !.new = <<>>]]
        ELSE [ok |-> FALSE, table |-> table, db |-> db,
              exc |-> "IntegrityError"]

db_commit(table, db) ==
    IF ForeignKeyOk(db)
    THEN [ok |-> TRUE, table |-> table \o db.new,
          db |-> [db EXCEPT !.new = <<>>]]
    ELSE [ok |-> FALSE, table |-> table, db |-> db,
          exc |-> "IntegrityError"]

-----------------------------------------------------------------------------
(* plans_insert: the handler *)

HTTPException(code, kind, n) ==
    [code |-> code, detail |-> [kind |-> kind, row |-> n]]

\* An exception no except clause catches: the framework answers 500.
Uncaught(exc) == [code |-> 500, detail |-> [kind |-> exc, row |-> 0]]

NoDetail == [kind |-> "", row |-> 0]

\* df.columns.str.strip().str.lower() on the header names the uploads use.
strip_lower(name) ==
    CASE name \in {"period", " Period ", "PERIOD"} -> "period"
      [] name \in {"sum", "Sum ", " SUM"} -> "sum"
      [] name \in {"category_id", "Category_ID", " category_id"} -> "category_id"
      [] OTHER -> name

required_columns == {"period", "sum", "category_id"}

\* Lines 115-134: read the file, normalise the header, require the columns.
read_file(file) ==
    IF ~file.readable
    THEN HTTPException(400, "Invalid file format", 0)
    ELSE IF ~(required_columns \subseteq {strip_lower(c) : c \in file.columns})
    THEN HTTPException(400, "The file must contain the following columns", 0)
    ELSE [code |-> 0, detail |-> NoDetail]

\* Variant: the messages quote the 0-based label itself.
row_number_zero_based(index) == index

\* The row number the messages quote: the 0-based iterrows() label plus one.
row_number(index) == index + 1

\* Variant: the month is tested instead of the day.
not_first_month(period) == period.month # 1

\* Line 144: period.day != 1
not_first_day(period) == period.day # 1

\* Lines 136-168: one iteration of the loop over df.iterrows().  code = 0
\* means the row was staged and the loop goes on.
plans_insert_row(index, row, db) ==
    LET period == to_datetime(row.period)
        category_id == int(row.category_id)
        sum_ == int(row.sum)
        n == row_number(index)
        stop(e) == [code |-> e.code, detail |-> e.detail, db |-> db]
    IN  IF ~period.ok
        THEN stop(HTTPException(400, "Invalid date format", n))
        ELSE IF not_first_day(period.date)
        THEN stop(HTTPException(400, "must be the first day of the month", n))
        ELSE IF isnull(row.sum)
        THEN stop(HTTPException(400, "The 'sum' field is empty", n))
        ELSE IF ~category_id.ok
        THEN (IF category_id.exc = "ValueError"
              THEN stop(HTTPException(400, "Invalid category_id", n))
              ELSE stop(Uncaught(category_id.exc)))
        ELSE IF get_existing_plan(db, period.date, category_id.v) # NULL
        THEN stop(HTTPException(400, "already exists", n))
        ELSE IF ~sum_.ok
        THEN stop(Uncaught(sum_.exc))
        ELSE [code |-> 0, detail |-> NoDetail,
              db |-> create_plan(db, period.date, sum_.v, category_id.v)]

\* The (period, category_id) a row names, when both cells convert.
HasKey(row) == to_datetime(row.period).ok /\ int(row.category_id).ok

RowKey(row) ==
    [period |-> to_datetime(row.period).date,
     category_id |-> int(row.category_id).v]

RowKeys(rows) ==
    {RowKey(rows[i]) : i \in {j \in 1..Len(rows) : HasKey(rows[j])}}

-----------------------------------------------------------------------------
(* Aggregate queries of db_operations/crud.py *)

RECURSIVE SumFn(_, _)
SumFn(f, D) ==
    IF D = {} THEN 0
    ELSE LET x == CHOOSE y \in D : TRUE IN f[x] + SumFn(f, D \ {x})

\* func.sum(...).scalar(): NULL over no rows, else the total.
scalar_sum(f, D) ==
    IF D = {} THEN NULL ELSE [null |-> FALSE, v |-> SumFn(f, D)]

\* Python's "x or 0": None and a zero total both give 0.
or_0(x) == IF x = NULL THEN 0 ELSE x.v

InMonth(d, year, month) == d # NULL /\ d.year = year /\ d.month = month

IssuedIn(year, month) ==
    {c \in credits : InMonth(c.issuance_date, year, month)}

\* Payments JOIN Credits: payments whose credit_id names a credit.
PaidIn(year, month) ==
    {p \in payments : /\ \E c \in credits : c.id = p.credit_id
                      /\ InMonth(p.payment_date, year, month)}

\* Plans JOIN Dictionary with Dictionary.name = name, period in the month.
PlansIn(year, month, name) ==
    {i \in 1..Len(plans) :
        /\ InMonth(plans[i].period, year, month)
        /\ \E d \in dictionary :
              d.id = plans[i].category_id /\ d.name = name}

count_issuances_in_month(db, year, month) ==
    Cardinality(IssuedIn(year, month))

get_plan_sum_issuance(db, year, month) ==
    or_0(scalar_sum([i \in 1..Len(plans) |-> plans[i].sum],
                    PlansIn(year, month, "issuance")))

get_issuances_for_month(db, year, month) ==
    or_0(scalar_sum([c \in credits |-> c.body], IssuedIn(year, month)))

count_payments_in_month(db, year, month) ==
    Cardinality(PaidIn(year, month))

get_plan_sum_for_payments(db, year, month) ==
    or_0(scalar_sum([i \in 1..Len(plans) |-> plans[i].sum],
                    PlansIn(year, month, "collection")))

\* In hundredths (Payments.sum is DECIMAL(7,2)).
get_sum_payments_for_month(db, year, month) ==
    or_0(scalar_sum([p \in payments |-> p.sum], PaidIn(year, month)))

get_credits_by_user_id(db, user_id) ==
    {c \in credits : c.user_id = user_id}

get_total_payments(db, credit_id) ==
    or_0(scalar_sum([p \in payments |-> p.sum],
                    {p \in payments : p.credit_id = credit_id}))

\* Variant: without a dictionary entry the type filter is dropped.
get_total_payment_by_type_any(db, credit_id, type_name) ==
    LET ids == {d.id : d \in {e \in dictionary : e.name = type_name}}
    IN  or_0(scalar_sum([p \in payments |-> p.sum],
                {p \in payments : /\ p.credit_id = credit_id
                                  /\ ids # {} => p.type_id = Min(ids)}))

get_total_payment_by_type(db, credit_id, type_name) ==
    LET ids == {d.id : d \in {e \in dictionary : e.name = type_name}}
    IN  IF ids = {} THEN 0
        ELSE or_0(scalar_sum([p \in payments |-> p.sum],
                    {p \in payments : /\ p.credit_id = credit_id
                                      /\ p.type_id = Min(ids)}))

\* date.toordinal()
RECURSIVE DaysBeforeMonth(_, _)
DaysBeforeMonth(y, m) ==
    IF m = 1 THEN 0 ELSE DaysBeforeMonth(y, m - 1) + DaysInMonth(y, m - 1)

toordinal(d) ==
    LET y == d.year - 1
    IN  y * 365 + (y \div 4) - (y \div 100) + (y \div 400)
        + DaysBeforeMonth(d.year, d.month) + d.day

\* date.today()
Today == Date(2025, 6, 15)

calculate_overdue_days(return_date) ==
    LET overdue == toordinal(Today) - toordinal(return_date)
    IN  IF overdue > 0 THEN overdue ELSE 0

-----------------------------------------------------------------------------
(* year_performance *)

MinYear == 2000

\* round(n / d * 100, 2) for d # 0, in hundredths of a percent, n and d in
\* the same unit; ties go to the even neighbour, as Python's round() does.
RoundHalfEven(n, d) ==
    LET nn == IF d < 0 THEN -n ELSE n
        dd == Abs(d)
        q == nn \div dd
        r == nn % dd
    IN  IF 2 * r < dd THEN q
        ELSE IF 2 * r > dd THEN q + 1
        ELSE IF q % 2 = 0 THEN q ELSE q + 1

\* actual / plan: ZeroDivisionError when plan is 0.
divide(actual, plan) ==
    IF plan = 0 THEN Raise("ZeroDivisionError")
    ELSE [ok |-> TRUE, h |-> RoundHalfEven(actual * 10000, plan)]

\* Variant: the quotient is taken without testing plan.
plan_percent_unguarded(actual, plan) ==
    LET q == divide(actual, plan)
    IN  IF q.ok THEN [ok |-> TRUE, ratio |-> TRUE, h |-> q.h] ELSE q

\* round((actual / plan * 100) if plan else 0, 2): the quotient when plan is
\* truthy (non-zero), the literal 0 otherwise.
plan_percent(actual, plan) ==
    IF plan # 0
    THEN LET q == divide(actual, plan)
         IN  IF q.ok THEN [ok |-> TRUE, ratio |-> TRUE, h |-> q.h] ELSE q
    ELSE [ok |-> TRUE, ratio |-> FALSE, h |-> 0]

\* f"{...}%": what the response carries of a percentage.
Render(pct) == [ratio |-> pct.ratio, h |-> pct.h]

\* Variant: the end of the range is left out twice.
range_short(a, b) == [i \in 1..(b - a - 1) |-> a + i - 1]

\* range(a, b)
range(a, b) == [i \in 1..(b - a) |-> a + i - 1]

months == range(1, 13)

RECURSIVE SumSeq(_)
SumSeq(s) == IF s = <<>> THEN 0 ELSE Head(s) + SumSeq(Tail(s))

Column(rows, F(_)) == SumSeq([i \in 1..Len(rows) |-> F(rows[i])])

\* Lines 197-218: the numbers of one month.  Plans.sum and Credits.body are
\* integers, payment sums are in hundredths, hence the * 100.
month_numbers(db, year, month) ==
    [month |-> month,
     year |-> year,
     issuances |-> count_issuances_in_month(db, year, month),
     plan_sum_issuances |-> get_plan_sum_issuance(db, year, month),
     sum_issuances_for_month |-> get_issuances_for_month(db, year, month),
     payments_in_month |-> count_payments_in_month(db, year, month),
     plan_sum_for_payments |-> get_plan_sum_for_payments(db, year, month),
     sum_payments_for_month |-> get_sum_payments_for_month(db, year, month)]

issuance_percent(n) ==
    plan_percent(n.sum_issuances_for_month, n.plan_sum_issuances)

payment_percent(n) ==
    plan_percent(n.sum_payments_for_month, n.plan_sum_for_payments * 100)

\* Lines 220-248: the month record, with its two plan percentages and its
\* two share-of-year percentages.
month_record(n, total_sum_issuances, total_sum_payments_for_month) ==
    [month |-> n.month,
     year |-> n.year,
     issuances |-> n.issuances,
     plan_sum_issuances |-> n.plan_sum_issuances,
     sum_issuances_for_month |-> n.sum_issuances_for_month,
     issuance_plan_percent |-> Render(issuance_percent(n)),
     payments_in_month |-> n.payments_in_month,
     plan_sum_for_payments |-> n.plan_sum_for_payments,
     sum_payments_for_month |-> n.sum_payments_for_month,
     payment_plan_performance_percent |-> Render(payment_percent(n)),
     sum_month_issuance_percent |->
        Render(plan_percent(n.sum_issuances_for_month, total_sum_issuances)),
     sum_month_payment_percent |->
        Render(plan_percent(n.sum_payments_for_month,
                            total_sum_payments_for_month))]

\* Lines 250-264: the summary record.
total_percent(actual, plan) == plan_percent(actual, plan)

\* Variant: the total percentages add up the months' percentages.
summary_record_adding_percents(year, ns) ==
    LET S(F(_)) == Column(ns, F)
        issuances(n) == n.issuances
        plan_i(n) == n.plan_sum_issuances
        sum_i(n) == n.sum_issuances_for_month
        payments_(n) == n.payments_in_month
        plan_p(n) == n.plan_sum_for_payments
        sum_p(n) == n.sum_payments_for_month
        pct_i(n) == issuance_percent(n).h
        pct_p(n) == payment_percent(n).h
    IN  [total_issuances |-> S(issuances),
         year |-> year,
         plan_sum_issuances |-> S(plan_i),
         total_sum_issuances_for_month |-> S(sum_i),
         total_issuance_plan_percent |->
            [ratio |-> S(plan_i) # 0, h |-> S(pct_i)],
         total_payments_in_month |-> S(payments_),
         total_plan_sum_for_payments |-> S(plan_p),
         total_sum_payments_for_month |-> S(sum_p),
         total_payment_plan_performance_percent |->
            [ratio |-> S(plan_p) # 0, h |-> S(pct_p)]]

summary_record(year, ns) ==
    LET S(F(_)) == Column(ns, F)
        issuances(n) == n.issuances
        plan_i(n) == n.plan_sum_issuances
        sum_i(n) == n.sum_issuances_for_month
        payments_(n) == n.payments_in_month
        plan_p(n) == n.plan_sum_for_payments
        sum_p(n) == n.sum_payments_for_month
    IN  [total_issuances |-> S(issuances),
         year |-> year,
         plan_sum_issuances |-> S(plan_i),
         total_sum_issuances_for_month |-> S(sum_i),
         total_issuance_plan_percent |->
            Render(total_percent(S(sum_i), S(plan_i))),
         total_payments_in_month |-> S(payments_),
         total_plan_sum_for_payments |-> S(plan_p),
         total_sum_payments_for_month |-> S(sum_p),
         total_payment_plan_performance_percent |->
            Render(total_percent(S(sum_p), S(plan_p) * 100))]

\* The whole handler: the year check, the 12 months, the summary.  A
\* ZeroDivisionError in any percentage would leave the handler uncaught.
year_performance_response(db, year) ==
    IF year < MinYear \/ year > Today.year + 1
    THEN [code |-> 400, detail |-> [kind |-> "Invalid year", row |-> 0],
          body |-> <<>>]
    ELSE
      LET ns == [i \in 1..Len(months) |-> month_numbers(db, year, months[i])]
          n_(F(_)) == Column(ns, F)
          sum_i(n) == n.sum_issuances_for_month
          sum_p(n) == n.sum_payments_for_month
          held == \A i \in 1..Len(ns) :
                     /\ issuance_percent(ns[i]).ok
                     /\ payment_percent(ns[i]).ok
      IN  IF ~held
          THEN [code |-> 500,
                detail |-> [kind |-> "ZeroDivisionError", row |-> 0],
                body |-> <<>>]
          ELSE [code |-> 200, detail |-> NoDetail,
                body |-> Append(
                    [i \in 1..Len(ns) |->
                        month_record(ns[i], n_(sum_i), n_(sum_p))],
                    summary_record(year, ns))]

-----------------------------------------------------------------------------
(* get_user_credits *)

RECURSIVE ById(_)
ById(S) ==
    IF S = {} THEN <<>>
    ELSE LET c == CHOOSE x \in S : \A y \in S : x.id <= y.id
         IN  <<c>> \o ById(S \ {c})

\* Variant: the branch is chosen by the due date having passed.
credit_data_by_due_date(db, credit) ==
    IF calculate_overdue_days(credit.return_date) > 0
    THEN [issuance_date |-> credit.issuance_date,
          is_closed |-> credit.actual_return_date # NULL,
          actual_return_date |-> credit.actual_return_date,
          body |-> credit.body,
          percent |-> credit.percent,
          total_payments |-> get_total_payments(db, credit.id)]
    ELSE [issuance_date |-> credit.issuance_date,
          is_closed |-> credit.actual_return_date # NULL,
          return_date |-> credit.return_date,
          overdue_days |-> calculate_overdue_days(credit.return_date),
          body |-> credit.body,
          percent |-> credit.percent,
          body_payments |-> get_total_payment_by_type(db, credit.id, "body"),
          percent_payments |->
              get_total_payment_by_type(db, credit.id, "percent")]

\* Lines 68-92: the record of one credit.
credit_data(db, credit) ==
    IF credit.actual_return_date # NULL
    THEN [issuance_date |-> credit.issuance_date,
          is_closed |-> TRUE,
          actual_return_date |-> credit.actual_return_date,
          body |-> credit.body,
          percent |-> credit.percent,
          total_payments |-> get_total_payments(db, credit.id)]
    ELSE [issuance_date |-> credit.issuance_date,
          is_closed |-> FALSE,
          return_date |-> credit.return_date,
          overdue_days |-> calculate_overdue_days(credit.return_date),
          body |-> credit.body,
          percent |-> credit.percent,
          body_payments |-> get_total_payment_by_type(db, credit.id, "body"),
          percent_payments |->
              get_total_payment_by_type(db, credit.id, "percent")]

get_user_credits_response(db, user_id) ==
    LET found == ById(get_credits_by_user_id(db, user_id))
    IN  IF found = <<>>
        THEN [code |-> 404,
              detail |-> [kind |-> "User or credits not found", row |-> 0],
              body |-> <<>>]
        ELSE [code |-> 200, detail |-> NoDetail,
              body |-> [i \in 1..Len(found) |-> credit_data(db, found[i])]]

-----------------------------------------------------------------------------
(* Inputs and initial contents of the store *)

Jan1 == PeriodText(1, 1, 2024)
Feb1 == PeriodText(1, 2, 2024)
Jan15 == PeriodText(15, 1, 2024)
Junk == [kind |-> "junk"]

\* The rows uploads are made of: four that can be stored (the first two name
\* the same plan), and rows failing one or several checks.
Rows ==
    { Row(Jan1, Num(79), Num(10)),      \* 7.9 for category 1 (issuance)
      Row(Jan1, Num(-79), Num(10)),     \* -7.9 for the same plan
      Row(Feb1, Num(0), Num(10)),       \* sum 0 is allowed
      Row(Jan1, Num(70), Num(25)),      \* category 2.5, read as 2 (collection)
      Row(Junk, NaN, Text),             \* bad date, empty sum, bad category
      Row(NaN, Num(40), Num(10)),       \* empty period
      Row(Jan15, Num(40), Num(10)),     \* not a first of month
      Row(Jan15, NaN, Num(10)),         \* not a first of month, empty sum
      Row(Jan1, NaN, Text),             \* empty sum, bad category
      Row(Jan1, NaN, Num(10)),          \* empty sum
      Row(Jan1, Num(40), Text),         \* category not a number
      Row(Jan1, Text, Num(10)),         \* sum not a number
      Row(Feb1, Num(40), Num(90)),      \* category 9 is in no dictionary
      Row(Jan1, Num(40), Inf) }         \* infinite category

Tables == UNION {[1..n -> Rows] : n \in 0..MaxRows}

Headers ==
    { {"period", "sum", "category_id"},
      {" Period ", " SUM", "Category_ID", "comment"} }

\* An unreadable file, a table without the category_id column, and every
\* table with the three columns.
Files ==
    {[readable |-> FALSE, columns |-> {}, rows |-> <<>>],
     [readable |-> TRUE, columns |-> {"period", "sum"}, rows |-> <<>>]}
    \cup {[readable |-> TRUE, columns |-> h, rows |-> t] :
             h \in Headers, t \in Tables}

Years == {1999, MinYear, 2024, Today.year + 1, Today.year + 2}

UserIds == {1, 2, 42}

Names == [id \in 1..4 |->
            <<"issuance", "collection", "body", "percent">>[id]]

Renamed == [id \in 1..4 |->
              <<"issue", "collection", "principal", "percent">>[id]]

Dict(names) == {[id |-> i, name |-> names[i]] : i \in DOMAIN names}

\* Rows of table users; credits.user_id refers to users.id.
User(id) ==
    [id |-> id, login |-> id, registration_date |-> Date(2023, 12, 1)]

Credit(id, user, issued, due, returned, body, percent) ==
    [id |-> id, user_id |-> user, issuance_date |-> issued,
     return_date |-> due, actual_return_date |-> returned,
     body |-> body, percent |-> percent]

Payment(id, credit, paid, type, sum_) ==
    [id |-> id, credit_id |-> credit, payment_date |-> paid,
     type_id |-> type, sum |-> sum_]

\* percent in tenths (DECIMAL(7,1)), payment sums in hundredths.
SomeCredits ==
    { Credit(1, 1, Date(2024, 1, 10), Date(2024, 7, 10), Date(2024, 6, 30),
             100, 105),
      Credit(2, 1, Date(2024, 1, 20), Date(2025, 12, 31), NULL, 50, 80),
      Credit(3, 2, Date(2024, 3, 5), Date(2024, 9, 5), NULL, 3, 125) }

SomePayments ==
    { Payment(1, 1, Date(2024, 1, 25), 3, 2550),
      Payment(2, 1, Date(2024, 2, 15), 4, 500),
      Payment(3, 3, Date(2024, 3, 20), 3, 100),
      Payment(4, 2, Date(2024, 3, 21), 4, 25),
      Payment(5, 0, Date(2024, 3, 22), 3, 999) }   \* credit_id NULL

\* The dictionary without the names "collection" and "percent".
Relabelled == [id \in 1..4 |->
                 <<"issuance", "collect", "body", "interest">>[id]]

Fixtures ==
    { [credits |-> {}, payments |-> {}, dictionary |-> Dict(Names)],
      [credits |-> SomeCredits, payments |-> SomePayments,
       dictionary |-> Dict(Relabelled)],
      [credits |-> SomeCredits, payments |-> SomePayments,
       dictionary |-> Dict(Names)],
      [credits |-> SomeCredits, payments |-> SomePayments,
       dictionary |-> Dict(Renamed)] }

Reqs == {1, 2}

-----------------------------------------------------------------------------
(* The state machine *)

NoArg == [rows |-> <<>>, year |-> 0, user_id |-> 0]

Init ==
    /\ plans = <<>>
    /\ \E f \in Fixtures :
          /\ credits = f.credits
          /\ payments = f.payments
          /\ dictionary = f.dictionary
          /\ users = {User(c.user_id) : c \in f.credits} \cup {User(42)}
    /\ pc = [r \in Reqs |-> "idle"]
    /\ op = [r \in Reqs |-> ""]
    /\ arg = [r \in Reqs |-> NoArg]
    /\ idx = [r \in Reqs |-> 0]
    /\ session = [r \in Reqs |-> NoSession]
    /\ status = [r \in Reqs |-> 0]
    /\ detail = [r \in Reqs |-> NoDetail]
    /\ result = [r \in Reqs |-> <<>>]
    /\ acquired = [r \in Reqs |-> 0]
    /\ before = [r \in Reqs |-> <<>>]
    /\ known = [r \in Reqs |-> {}]
    /\ uploaded = {}

\* A request arrives: Depends(get_db) runs get_db up to its yield, so the
\* handler starts with a fresh session.
Arrive(r, name, input) ==
    /\ pc[r] = "idle"
    /\ op' = [op EXCEPT ![r] = name]
    /\ arg' = [arg EXCEPT ![r] = input]
    /\ session' = [session EXCEPT ![r] = SessionLocal]
    /\ acquired' = [acquired EXCEPT ![r] = @ + 1]
    /\ before' = [before EXCEPT ![r] = plans]
    /\ known' = [known EXCEPT ![r] = uploaded]

\* The handler leaves with a response or an exception.
Leave(r, code, why, body) ==
    /\ pc' = [pc EXCEPT ![r] = "exit"]
    /\ status' = [status EXCEPT ![r] = code]
    /\ detail' = [detail EXCEPT ![r] = why]
    /\ result' = [result EXCEPT ![r] = body]

\* POST /plans_insert, lines 115-134: the file is read and its header checked.
\* Rows of the uploads still in their loop; MaxPlans caps table plans with
\* them counted.
InFlight ==
    LET n(r) == IF pc[r] = "rows" THEN Len(arg[r].rows) ELSE 0
    IN  n(1) + n(2)

plans_insert_begin_from(r, files) ==
    /\ pc[r] = "idle"
    /\ \E file \in files :
        /\ Len(plans) + InFlight + Len(file.rows) <= MaxPlans
        /\ Arrive(r, "plans_insert", [NoArg EXCEPT !.rows = file.rows])
        /\ LET rd == read_file(file)
           IN  IF rd.code # 0
               THEN Leave(r, rd.code, rd.detail, <<>>)
               ELSE /\ pc' = [pc EXCEPT ![r] = "rows"]
                    /\ UNCHANGED <<status, detail, result>>
        /\ UNCHANGED <<plans, store, idx, uploaded>>

plans_insert_begin(r) == plans_insert_begin_from(r, Files)

\* Lines 136-168: one row of df.iterrows().
plans_insert_loop(r) ==
    /\ pc[r] = "rows"
    /\ idx[r] < Len(arg[r].rows)
    /\ LET step == plans_insert_row(idx[r], arg[r].rows[idx[r] + 1],
                                    session[r])
       IN  IF step.code = 0
           THEN /\ session' = [session EXCEPT ![r] = step.db]
                /\ idx' = [idx EXCEPT ![r] = @ + 1]
                /\ UNCHANGED <<pc, status, detail, result>>
           ELSE /\ Leave(r, step.code, step.detail, <<>>)
                /\ UNCHANGED <<session, idx>>
    /\ UNCHANGED <<plans, store, op, arg, acquired, before, known, uploaded>>

\* Lines 170-173: the loop is over, db.commit() and the 200 response.
plans_insert_commit(r) ==
    /\ pc[r] = "rows"
    /\ idx[r] = Len(arg[r].rows)
    /\ LET done == db_commit(plans, session[r])
       IN  IF done.ok
           THEN /\ plans' = done.table
                /\ session' = [session EXCEPT ![r] = done.db]
                /\ uploaded' = uploaded \cup RowKeys(arg[r].rows)
                /\ Leave(r, 200, NoDetail, <<>>)
           ELSE /\ Leave(r, 500, [kind |-> done.exc, row |-> 0], <<>>)
                /\ UNCHANGED <<plans, session, uploaded>>
    /\ UNCHANGED <<store, op, arg, idx, acquired, before, known>>

\* GET /year_performance
year_performance(r) ==
    /\ pc[r] = "idle"
    /\ \E year \in Years :
        /\ Arrive(r, "year_performance", [NoArg EXCEPT !.year = year])
        /\ LET resp == year_performance_response(SessionLocal, year)
           IN  Leave(r, resp.code, resp.detail, resp.body)
        /\ UNCHANGED <<plans, store, idx, uploaded>>

\* GET /user_credits/{user_id}
get_user_credits(r) ==
    /\ pc[r] = "idle"
    /\ \E user_id \in UserIds :
        /\ Arrive(r, "get_user_credits", [NoArg EXCEPT !.user_id = user_id])
        /\ LET resp == get_user_credits_response(SessionLocal, user_id)
           IN  Leave(r, resp.code, resp.detail, resp.body)
        /\ UNCHANGED <<plans, store, idx, uploaded>>

\* get_db after its yield: the finally clause.
get_db_exit(r) ==
    /\ pc[r] = "exit"
    /\ session' = [session EXCEPT ![r] = get_db_finally(@, status[r])]
    /\ plans' = plans_after_close(plans, session[r])
    /\ pc' = [pc EXCEPT ![r] = "done"]
    /\ UNCHANGED <<store, op, arg, idx, status, detail, result, acquired,
                   before, known, uploaded>>

\* The response has been sent; the worker is free for the next request.
Respond(r) ==
    /\ pc[r] = "done"
    /\ pc' = [pc EXCEPT ![r] = "idle"]
    /\ op' = [op EXCEPT ![r] = ""]
    /\ arg' = [arg EXCEPT ![r] = NoArg]
    /\ idx' = [idx EXCEPT ![r] = 0]
    /\ session' = [session EXCEPT ![r] = NoSession]
    /\ status' = [status EXCEPT ![r] = 0]
    /\ detail' = [detail EXCEPT ![r] = NoDetail]
    /\ result' = [result EXCEPT ![r] = <<>>]
    /\ acquired' = [acquired EXCEPT ![r] = 0]
    /\ before' = [before EXCEPT ![r] = <<>>]
    /\ known' = [known EXCEPT ![r] = {}]
    /\ UNCHANGED <<plans, store, uploaded>>

\* Requests served one at a time, each from arrival to response, by worker 1
\* (worker 2 stays idle here).
Next ==
    \/ plans_insert_begin(1)
    \/ plans_insert_loop(1)
    \/ plans_insert_commit(1)
    \/ year_performance(1)
    \/ get_user_credits(1)
    \/ get_db_exit(1)
    \/ Respond(1)

Spec == Init /\ [][Next]_vars

\* Uploads that two workers serve at the same time, each with its own
\* session, one handler step at a time.
ConcRows ==
    { Row(Jan1, Num(79), Num(10)),
      Row(Feb1, Num(0), Num(10)),
      Row(Jan15, Num(40), Num(10)) }

ConcFiles ==
    {[readable |-> TRUE, columns |-> {"period", "sum", "category_id"},
      rows |-> t] : t \in UNION {[1..n -> ConcRows] : n \in 1..MaxRows}}

NextConc ==
    \E r \in Reqs :
        \/ plans_insert_begin_from(r, ConcFiles)
        \/ plans_insert_loop(r)
        \/ plans_insert_commit(r)
        \/ get_db_exit(r)
        \/ Respond(r)

SpecConc == Init /\ [][NextConc]_vars

-----------------------------------------------------------------------------
(* Vocabulary of the properties *)

Served(r, name) == pc[r] \in {"exit", "done"} /\ op[r] = name

Returned(r, name) == pc[r] = "done" /\ op[r] = name

\* The checks of section 4.3, in their order, by the message each raises.
CheckOrder ==
    << "Invalid date format",
       "must be the first day of the month",
       "The 'sum' field is empty",
       "Invalid category_id",
       "already exists" >>

\* The checks a row fails against a table, each judged on its own.
Failed(row, table) ==
    LET p == to_datetime(row.period)
        c == int(row.category_id)
    IN  (IF ~p.ok THEN {CheckOrder[1]} ELSE {})
        \cup (IF p.ok /\ p.date.day # 1 THEN {CheckOrder[2]} ELSE {})
        \cup (IF isnull(row.sum) THEN {CheckOrder[3]} ELSE {})
        \cup (IF ~c.ok THEN {CheckOrder[4]} ELSE {})
        \cup (IF p.ok /\ c.ok /\ Matching(table, p.date, c.v) # {}
              THEN {CheckOrder[5]} ELSE {})

FirstFailed(row, table) ==
    CheckOrder[Min({i \in DOMAIN CheckOrder :
                        CheckOrder[i] \in Failed(row, table)})]

FailingRows(rows, table) ==
    {i \in 1..Len(rows) : Failed(rows[i], table) # {}}

\* The row was staged: it passed every check and its sum converted.
Stageable(row, table) == Failed(row, table) = {} /\ int(row.sum).ok

\* h hundredths of a percent is n / d * 100 rounded to 2 places.
IsRounded(h, n, d) == 2 * Abs(h * d - n * 10000) <= Abs(d)

ZeroPercent == [ratio |-> FALSE, h |-> 0]

ValidYear(y) == y >= MinYear /\ y <= Today.year + 1

-----------------------------------------------------------------------------
(* C1 *)

\* C1: plan upload is all-or-nothing.  When plans_insert has returned, if
\* some row of the batch fails a check then table plans is exactly what it
\* was before the request, even though earlier valid rows had been staged;
\* and the table has changed only if every row passed, in which case it
\* gained one plan per row.
C1_AllOrNothing ==
    \A r \in Reqs :
        Returned(r, "plans_insert") =>
            /\ FailingRows(arg[r].rows, before[r]) # {} => plans = before[r]
            /\ plans # before[r] =>
                  /\ status[r] = 200
                  /\ FailingRows(arg[r].rows, before[r]) = {}
                  /\ Len(plans) = Len(before[r]) + Len(arg[r].rows)

\* A rejected upload whose first row had been staged has returned.
C1_Witness ==
    \E r \in Reqs :
        /\ Returned(r, "plans_insert")
        /\ status[r] = 400
        /\ idx[r] >= 1
        /\ FailingRows(arg[r].rows, before[r]) # {}

-----------------------------------------------------------------------------
(* C2 *)

\* C2: table plans holds at most one plan for every (period, category_id)
\* pair, after any sequence of uploads.
C2_OnePlanPerKey ==
    \A i, j \in 1..Len(plans) :
        (plans[i].period = plans[j].period
         /\ plans[i].category_id = plans[j].category_id) => i = j

-----------------------------------------------------------------------------
(* C3 *)

KnownRows(r) ==
    {i \in 1..Len(arg[r].rows) :
        HasKey(arg[r].rows[i]) /\ RowKey(arg[r].rows[i]) \in known[r]}

AlreadyExists(n) == [kind |-> "already exists", row |-> n]

\* C3 as claimed: once an upload containing a row for (period, category_id)
\* has succeeded, a later upload containing a row for the same pair is
\* answered 400 "already exists" quoting that row, and persists nothing.
C3_LaterUploadSaysExists ==
    \A r \in Reqs :
        Returned(r, "plans_insert") =>
            \A i \in KnownRows(r) :
                /\ status[r] = 400
                /\ detail[r] = AlreadyExists(i)
                /\ plans = before[r]

\* C3 as amended: such a later upload is never answered 200 and persists
\* nothing; its error is "already exists" quoting that row when every row
\* before it was staged and the row's own sum is not empty.
C3_LaterUploadRejected ==
    \A r \in Reqs :
        Returned(r, "plans_insert") =>
            \A i \in KnownRows(r) :
                /\ status[r] \in {400, 500}
                /\ plans = before[r]
                /\ ( /\ \A j \in 1..(i - 1) :
                           Stageable(arg[r].rows[j], before[r])
                     /\ ~isnull(arg[r].rows[i].sum) )
                   => /\ status[r] = 400
                      /\ detail[r] = AlreadyExists(i)

\* A second upload was refused for its second row, which names a plan an
\* earlier upload had stored.
C3_Witness ==
    \E r \in Reqs :
        /\ Returned(r, "plans_insert")
        /\ 2 \in KnownRows(r)
        /\ detail[r] = AlreadyExists(2)

-----------------------------------------------------------------------------
(* C4 *)

\* C4: every plan in table plans has a period whose day of month is 1, in
\* every state reachable by uploads.
C4_FirstOfMonth ==
    \A i \in 1..Len(plans) : plans[i].period.day = 1

\* An upload has just added plans, in a run where a mid-month row exists
\* among the inputs.
C4_Witness ==
    \E r \in Reqs :
        /\ Returned(r, "plans_insert")
        /\ status[r] = 200
        /\ Len(plans) > Len(before[r])

-----------------------------------------------------------------------------
(* C5 *)

RowMessages == {CheckOrder[i] : i \in DOMAIN CheckOrder}

\* C5: when plans_insert rejects a batch for one of its rows, the message
\* quotes the 1-based number of the first row, in row order, that fails any
\* check, and the reason is that row's first failing check in the order
\* date parse, first-of-month, sum present, category integer, plan exists;
\* the rows after it were not visited and only the rows before it had been
\* staged.
C5_FirstFailingRow ==
    \A r \in Reqs :
        ( /\ Served(r, "plans_insert")
          /\ status[r] = 400
          /\ detail[r].kind \in RowMessages ) =>
            LET rows == arg[r].rows
                n == detail[r].row
            IN  /\ FailingRows(rows, before[r]) # {}
                /\ n = Min(FailingRows(rows, before[r]))
                /\ detail[r].kind = FirstFailed(rows[n], before[r])
                /\ idx[r] = n - 1
                /\ pc[r] = "exit" => Len(session[r].new) = n - 1

\* An upload of two failing rows, the first failing several checks, was
\* rejected.
C5_Witness ==
    \E r \in Reqs :
        /\ Served(r, "plans_insert")
        /\ status[r] = 400
        /\ detail[r].row = 1
        /\ Cardinality(Failed(arg[r].rows[1], before[r])) >= 2
        /\ FailingRows(arg[r].rows, before[r]) = {1, 2}

-----------------------------------------------------------------------------
(* C6 *)

\* C6: every plans_insert request ends either 200, after all rows are
\* committed, or 400 with a message; a sum or category_id that cannot be
\* converted gives the 400 and no other failure.
C6_OkOrValidationError ==
    \A r \in Reqs :
        Served(r, "plans_insert") =>
            \/ status[r] = 200 /\ detail[r] = NoDetail
            \/ status[r] = 400 /\ detail[r].kind # ""

-----------------------------------------------------------------------------
(* C7 *)

-----------------------------------------------------------------------------
(* C8 *)

Report(r) == result[r]

MonthRecords(r) == SubSeq(result[r], 1, 12)

\* C8: for every year from 2000 to the current year plus one and any store
\* content, year_performance answers 200 with exactly 13 records: records 1
\* to 12 carry month = 1..12 in ascending order and record 13, the summary,
\* has no "month" field.
C8_ThirteenRecords ==
    \A r \in Reqs :
        (Served(r, "year_performance") /\ ValidYear(arg[r].year)) =>
            /\ status[r] = 200
            /\ Len(Report(r)) = 13
            /\ \A i \in 1..12 :
                  /\ "month" \in DOMAIN Report(r)[i]
                  /\ Report(r)[i].month = i
                  /\ Report(r)[i].year = arg[r].year
            /\ "month" \notin DOMAIN Report(r)[13]

\* The report of 2024 was produced over a store with credits and plans.
C8_Witness ==
    \E r \in Reqs :
        /\ Returned(r, "year_performance")
        /\ arg[r].year = 2024
        /\ status[r] = 200
        /\ credits # {}
        /\ plans # <<>>

-----------------------------------------------------------------------------
(* C9 *)

\* The percentage shown for actual against plan, as the claim has it (the
\* quotient when plan > 0) and as amended (the quotient when plan # 0).
ShownWhenPositive(pct, actual, plan) ==
    IF plan > 0 THEN pct.ratio /\ IsRounded(pct.h, actual, plan)
    ELSE pct = ZeroPercent

ShownWhenNonZero(pct, actual, plan) ==
    IF plan # 0 THEN pct.ratio /\ IsRounded(pct.h, actual, plan)
    ELSE pct = ZeroPercent

Answered(r) == Served(r, "year_performance") /\ ValidYear(arg[r].year)

\* C9 as claimed: in every month record, issuance_plan_percent and
\* payment_plan_performance_percent are actual / plan * 100 rounded to 2
\* places exactly when the month's plan sum is > 0 and 0 ("0%") otherwise,
\* and no division by zero occurs.
C9_PercentWhenPlanPositive ==
    \A r \in Reqs :
        Answered(r) =>
            /\ status[r] = 200
            /\ \A i \in 1..12 :
                 LET m == Report(r)[i]
                 IN  /\ ShownWhenPositive(m.issuance_plan_percent,
                            m.sum_issuances_for_month, m.plan_sum_issuances)
                     /\ ShownWhenPositive(m.payment_plan_performance_percent,
                            m.sum_payments_for_month,
                            m.plan_sum_for_payments * 100)

\* C9 as amended: the two percentages of a month are actual / plan * 100
\* rounded to 2 places exactly when the month's plan sum is not 0 (a negative
\* plan sum, which plans_insert stores, gives a negative percentage) and 0
\* ("0%") when it is 0; no division by zero occurs.
C9_PercentWhenPlanNonZero ==
    \A r \in Reqs :
        Answered(r) =>
            /\ status[r] = 200
            /\ \A i \in 1..12 :
                 LET m == Report(r)[i]
                 IN  /\ ShownWhenNonZero(m.issuance_plan_percent,
                            m.sum_issuances_for_month, m.plan_sum_issuances)
                     /\ ShownWhenNonZero(m.payment_plan_performance_percent,
                            m.sum_payments_for_month,
                            m.plan_sum_for_payments * 100)

\* A report with a month whose stored plan has sum 0 (shown "0%") and a month
\* whose plan is met by a positive, inexact quotient.
C9_Witness ==
    \E r \in Reqs :
        /\ Returned(r, "year_performance")
        /\ status[r] = 200
        /\ \E i \in 1..Len(plans) :
              plans[i].sum = 0 /\ plans[i].period.year = arg[r].year
        /\ \E i \in 1..12 :
              /\ Report(r)[i].plan_sum_for_payments > 0
              /\ Report(r)[i].payment_plan_performance_percent.h > 0
              /\ Report(r)[i].issuance_plan_percent = ZeroPercent

-----------------------------------------------------------------------------
(* C10 *)

Total(r, F(_)) == Column(MonthRecords(r), F)

\* C10: in the summary record, total_issuances is the sum of the 12 monthly
\* counts, which is the number of credits issued in the year; every total
\* sum is the sum of the 12 monthly values; every total percentage is the
\* quotient of the two yearly totals, rounded to 2 places, and 0 when the
\* total plan is 0.
C10_SummaryTotals ==
    \A r \in Reqs :
        (Answered(r) /\ status[r] = 200) =>
            LET s == Report(r)[13]
                issuances(m) == m.issuances
                plan_i(m) == m.plan_sum_issuances
                sum_i(m) == m.sum_issuances_for_month
                payments_(m) == m.payments_in_month
                plan_p(m) == m.plan_sum_for_payments
                sum_p(m) == m.sum_payments_for_month
            IN  /\ s.total_issuances = Total(r, issuances)
                /\ s.total_issuances =
                      Cardinality({c \in credits :
                          c.issuance_date.year = arg[r].year})
                /\ s.plan_sum_issuances = Total(r, plan_i)
                /\ s.total_sum_issuances_for_month = Total(r, sum_i)
                /\ s.total_payments_in_month = Total(r, payments_)
                /\ s.total_plan_sum_for_payments = Total(r, plan_p)
                /\ s.total_sum_payments_for_month = Total(r, sum_p)
                /\ ShownWhenNonZero(s.total_issuance_plan_percent,
                       Total(r, sum_i), Total(r, plan_i))
                /\ ShownWhenNonZero(s.total_payment_plan_performance_percent,
                       Total(r, sum_p), Total(r, plan_p) * 100)

\* A report whose year has credits in several months and a non-zero total
\* issuance plan.
C10_Witness ==
    \E r \in Reqs :
        /\ Returned(r, "year_performance")
        /\ status[r] = 200
        /\ Report(r)[13].plan_sum_issuances # 0
        /\ Report(r)[13].total_issuances >= 2
        /\ Report(r)[13].total_issuances > Report(r)[1].issuances

-----------------------------------------------------------------------------
(* C11 *)

ClosedFields ==
    {"issuance_date", "is_closed", "actual_return_date", "body", "percent",
     "total_payments"}

OpenFields ==
    {"issuance_date", "is_closed", "return_date", "overdue_days", "body",
     "percent", "body_payments", "percent_payments"}

CreditsOf(r) == ById({c \in credits : c.user_id = arg[r].user_id})

\* C11: every credit get_user_credits returns carries exactly one of the two
\* field sets, chosen only by whether its actual_return_date is non-null:
\* a closed credit has actual_return_date and total_payments and none of
\* return_date, overdue_days, body_payments, percent_payments; an open credit
\* has those four and neither actual_return_date nor total_payments.
C11_OneFieldSet ==
    \A r \in Reqs :
        (Served(r, "get_user_credits") /\ status[r] = 200) =>
            /\ Len(Report(r)) = Len(CreditsOf(r))
            /\ \A i \in 1..Len(Report(r)) :
                 LET c == CreditsOf(r)[i]
                     d == Report(r)[i]
                 IN  /\ d.is_closed = (c.actual_return_date # NULL)
                     /\ c.actual_return_date # NULL =>
                           /\ DOMAIN d = ClosedFields
                           /\ d.actual_return_date = c.actual_return_date
                     /\ c.actual_return_date = NULL =>
                           /\ DOMAIN d = OpenFields
                           /\ d.return_date = c.return_date

\* The credits of a user who has a closed credit and an open one, the open
\* one not yet due, were returned.
C11_Witness ==
    \E r \in Reqs :
        /\ Returned(r, "get_user_credits")
        /\ status[r] = 200
        /\ \E i, j \in 1..Len(Report(r)) :
              /\ Report(r)[i].is_closed
              /\ ~Report(r)[j].is_closed
              /\ Report(r)[j].overdue_days = 0

-----------------------------------------------------------------------------
(* C12 *)

Named(name) == \E d \in dictionary : d.name = name

\* C12: when "body", "percent", "issuance" or "collection" has no dictionary
\* entry, the operations that use the name still answer 200 and report 0
\* for the corresponding total: body_payments / percent_payments of every
\* open credit, plan_sum_issuances / plan_sum_for_payments of every month.
C12_MissingNameGivesZero ==
    \A r \in Reqs :
        /\ (Served(r, "get_user_credits") /\ CreditsOf(r) # <<>>) =>
              /\ status[r] = 200
              /\ \A i \in 1..Len(Report(r)) :
                    ~Report(r)[i].is_closed =>
                       /\ ~Named("body") => Report(r)[i].body_payments = 0
                       /\ ~Named("percent") =>
                             Report(r)[i].percent_payments = 0
        /\ Answered(r) =>
              /\ status[r] = 200
              /\ \A i \in 1..12 :
                    /\ ~Named("issuance") =>
                          Report(r)[i].plan_sum_issuances = 0
                    /\ ~Named("collection") =>
                          Report(r)[i].plan_sum_for_payments = 0

\* Without an entry named "body": the open credit of user 2, which has a
\* payment of type 3, was reported.
C12_WitnessPayments ==
    \E r \in Reqs :
        /\ Returned(r, "get_user_credits")
        /\ status[r] = 200
        /\ ~Named("body")
        /\ \E i \in 1..Len(Report(r)) :
              /\ ~Report(r)[i].is_closed
              /\ \E p \in payments :
                    p.credit_id = CreditsOf(r)[i].id /\ p.type_id = 3

\* Without an entry named "issuance": the year of a stored plan of category 1
\* and non-zero sum was reported, after the credits case above can occur.
C12_Witness ==
    \E r \in Reqs :
        /\ Returned(r, "year_performance")
        /\ status[r] = 200
        /\ ~Named("issuance")
        /\ ~Named("body")
        /\ \E i \in 1..Len(plans) :
              /\ plans[i].category_id = 1
              /\ plans[i].sum # 0
              /\ plans[i].period.year = arg[r].year

-----------------------------------------------------------------------------
(* C13 *)

\* The plan a staged row becomes.
PlanOf(row) ==
    [period |-> to_datetime(row.period).date,
     sum |-> int(row.sum).v,
     category_id |-> int(row.category_id).v]

PlansOf(rows) == [i \in 1..Len(rows) |-> PlanOf(rows[i])]

\* Every row passes the checks against the table and names a category of
\* the dictionary.
AllValid(rows, table) ==
    \A i \in 1..Len(rows) :
        /\ Stageable(rows[i], table)
        /\ \E d \in dictionary : d.id = int(rows[i].category_id).v

SameKeyRows(rows) ==
    {p \in (1..Len(rows)) \X (1..Len(rows)) :
        /\ p[1] < p[2]
        /\ HasKey(rows[p[1]]) /\ HasKey(rows[p[2]])
        /\ RowKey(rows[p[1]]) = RowKey(rows[p[2]])}

\* C13: the duplicate check reads only the committed table.  A batch whose
\* rows are each valid against the table as it was before the request, two
\* of them carrying the same (period, category_id), is answered 200 and the
\* table gains one plan per row, both rows of the pair included.
C13_BatchDuplicatesInserted ==
    \A r \in Reqs :
        (/\ Returned(r, "plans_insert")
         /\ arg[r].rows # <<>>
         /\ AllValid(arg[r].rows, before[r])
         /\ SameKeyRows(arg[r].rows) # {}) =>
            /\ status[r] = 200
            /\ plans = before[r] \o PlansOf(arg[r].rows)

C13_Witness ==
    \E r \in Reqs :
        /\ Returned(r, "plans_insert")
        /\ status[r] = 200
        /\ AllValid(arg[r].rows, before[r])
        /\ \E p \in SameKeyRows(arg[r].rows) :
              LET k == RowKey(arg[r].rows[p[1]])
              IN  /\ Matching(before[r], k.period, k.category_id) = {}
                  /\ Cardinality(Matching(plans, k.period, k.category_id)) = 2

-----------------------------------------------------------------------------
(* C14 *)

\* The loop of request r is over: every row passed its checks, the existence
\* check included, and was staged; db.commit() is next.
AtCommit(r) ==
    /\ pc[r] = "rows"
    /\ op[r] = "plans_insert"
    /\ idx[r] = Len(arg[r].rows)

SharedKeys(r1, r2) == RowKeys(arg[r1].rows) \cap RowKeys(arg[r2].rows)

\* C14: nothing protects (period, category_id) against concurrent uploads.
\* When request r1 commits after a request r2 with a row for the same pair
\* was accepted, r1 having run its existence checks before r2's commit (it
\* reached its own commit) and r2 before r1's, r1 is accepted as well and
\* the table then holds at least two plans for each pair they share.
C14_ConcurrentDuplicates ==
    [][\A r1, r2 \in Reqs :
          (/\ r1 # r2
           /\ AtCommit(r1)
           /\ pc'[r1] = "exit"
           /\ ForeignKeyOk(session[r1])
           /\ Served(r2, "plans_insert")
           /\ status[r2] = 200
           /\ SharedKeys(r1, r2) # {}) =>
              /\ status'[r1] = 200
              /\ plans' = plans \o session[r1].new
              /\ \A k \in SharedKeys(r1, r2) :
                    Cardinality(Matching(plans', k.period, k.category_id))
                       >= 2]_vars

\* Both requests were answered 200 and closed their sessions; neither saw a
\* plan for the pair on arrival, and the table ends with two.
C14_Witness ==
    /\ Returned(1, "plans_insert") /\ Returned(2, "plans_insert")
    /\ status[1] = 200 /\ status[2] = 200
    /\ \E k \in SharedKeys(1, 2) :
          /\ Matching(before[1], k.period, k.category_id) = {}
          /\ Matching(before[2], k.period, k.category_id) = {}
          /\ Cardinality(Matching(plans, k.period, k.category_id)) = 2

-----------------------------------------------------------------------------
(* C15 *)

\* r's db.commit() succeeds in this step.
Accepted(r) ==
    /\ AtCommit(r)
    /\ pc'[r] = "exit"
    /\ status'[r] = 200

\* C15: no step of get_user_credits, year_performance or plans_insert
\* updates or deletes a plan or writes users, credits, payments or
\* dictionary.  Table plans changes only when an upload is accepted, and
\* then by gaining one plan per row of the batch after the plans it had;
\* every other step, a rejected upload's and a session's close included,
\* leaves it as it was.
C15_PlansOnlyAppended ==
    [][/\ users' = users
       /\ credits' = credits
       /\ payments' = payments
       /\ dictionary' = dictionary
       /\ \A r \in Reqs :
             Accepted(r) => plans' = plans \o PlansOf(arg[r].rows)
       /\ (\A r \in Reqs : ~Accepted(r)) => plans' = plans
       /\ \A i \in 1..Len(plans) :
             i <= Len(plans') /\ plans'[i] = plans[i]]_vars

\* An upload was accepted on a table that already held plans: they are all
\* still there, followed by one plan per row of the batch.
C15_Witness ==
    \E r \in Reqs :
        /\ Returned(r, "plans_insert")
        /\ status[r] = 200
        /\ before[r] # <<>>
        /\ arg[r].rows # <<>>
        /\ plans = before[r] \o PlansOf(arg[r].rows)

====
